---- MODULE Spec2Model ----
(***************************************************************************)
(* Model of go-grpc-prometheus server.go: the registration of the default *)
(* server metrics into Prometheus registerers                             *)
(* (RegisterDefaultServerMetricsWithRegisterer), the histogram switch and *)
(* the default interceptors / pre-initialisation bound to                 *)
(* DefaultServerMetrics.                                                   *)
(***************************************************************************)
EXTENDS Integers, Sequences, FiniteSets, TLC

\* ---------------------------------------------------------------- bounds
NumCallers == 2
NumRegistries == 2

\* History counters stop counting here: "more than once" is all that is asked.
CountCap == 2
Saturate(n) == IF n > CountCap THEN CountCap ELSE n

Callers == 1..NumCallers

\* RPCs dispatched through the interceptors, and stream operations per RPC.
NumCalls == 2
MaxMsgs == 3

Calls == 1..NumCalls
Registries == 1..NumRegistries

\* ------------------------------------------------------------- constants
\* The collectors of DefaultServerMetrics, by the field that holds them.
Counters == <<"serverStartedCounter", "serverHandledCounter",
              "serverStreamMsgReceived", "serverStreamMsgSent">>
Histogram == "serverHandledHistogram"
Instruments == {Counters[i] : i \in 1..Len(Counters)} \cup {Histogram}

\* What a registerer's Register may return: nil or one of its errors.
Nil == "nil"
AlreadyRegisteredError == "AlreadyRegisteredError"
DescriptorConflict == "DescriptorConflict"

\* The ServerMetrics instances: the package's DefaultServerMetrics (line 19)
\* and any other one made by NewServerMetrics.
DefaultServerMetrics == "DefaultServerMetrics"
MetricSets == {DefaultServerMetrics, "otherServerMetrics"}

\* The methods declared on the server, as (call_type, service, method).
Methods == {<<"unary", "svc", "UnaryA">>, <<"server_stream", "svc", "StreamB">>}
IsStream(l) == l[1] # "unary"

\* Status codes of the handled counter.
OK == "OK"
Codes == {OK, "Canceled", "Unknown"}

\* A counter vector has no series for a label set until it is first touched.
Absent == -1

VARIABLES
  registration,       \* defaultServerMetricsPromRegistration: set of registerers
  mu,                 \* defaultServerMetricsPromRegistrationMu: 0 free, else holder
  registry,           \* registry[r]: the collectors registerer r holds
  histEnabled,        \* DefaultServerMetrics.serverHandledHistogramEnabled
  histExists,         \* DefaultServerMetrics.serverHandledHistogram != nil
  enPc,               \* position of a running EnableHandlingTimeHistogram
  pc,                 \* pc[p]: position of caller p in the function
  reg,                \* reg[p]: the argument (0 when not in a call)
  err,                \* err[p]: named result err
  alreadyRegistered,  \* alreadyRegistered[p]: named result
  registeredMetrics,  \* registeredMetrics[p]: local slice
  rollbackIdx,        \* rollbackIdx[p]: loop variable i of the rollback
  \* history of the current call of p (observers, not program state)
  regLog,             \* Register calls made: <<collector, result>>
  unregLog,           \* Unregister calls made: collector
  snapRegistry,       \* registry when p took the lock (line 47)
  snapRecord,         \* registration when p took the lock
  histSeen,           \* what line 94 evaluated to ("unread" before)
  histAtLock,         \* the histogram was enabled and present when p took
                      \* the lock (if it was when p called, it still is)
  histAtTest,         \* ... and when p evaluated line 94
  observed,           \* what the registerer showed p: "none", "recorded",
                      \* "failed" (a Register returned an error), "allOk"
  firstErr,           \* the first error a Register call returned to p
  unlocks,            \* Unlock() calls p has made in its current (or, once
                      \* returned, its last) call
  sawRollback,        \* while p waited for the lock, another caller's
                      \* registration of serverStartedCounter into the same
                      \* registry was undone
  \* history across calls
  recordedCount,      \* recordedCount[r]: attempts on r that wrote the record
  recordedSet,        \* recordedSet[r]: the collectors whose Register returned
                      \* nil in the attempt that wrote r into the record
  \* the counter vectors of each ServerMetrics
  started,            \* started[m][l]: serverStartedCounter
  handled,            \* handled[m][<<l, code>>]: serverHandledCounter
  msgReceived,        \* msgReceived[m][l]: serverStreamMsgReceived
  msgSent,            \* msgSent[m][l]: serverStreamMsgSent
  \* the RPCs
  cpc,                \* cpc[c]: "new", "running", "done"
  clabel,             \* clabel[c]: the method of a running RPC c (else <<>>)
  ops,                \* ops[c]: stream operations a running RPC c has made
  \* history of the RPCs, per method
  begun,              \* begun[l]: RPCs that entered the interceptor
  ended,              \* ended[l]: RPCs whose handler has exited
  failed,             \* failed[l]: ... other than by a successful return
  exits,              \* the ways handlers have exited so far
  sendsOk,            \* sendsOk[l]: underlying sends that succeeded
  recvsOk,            \* recvsOk[l]: underlying receives that gave a message
  retChanged,         \* a wrapped operation returned something other than
                      \* the underlying operation's result
  initialized         \* Register(server): "no", or called last "quiet"
                      \* (before any RPC) or "busy" (after one started)

regVars == <<registration, mu, registry, histEnabled, histExists, enPc, pc, reg,
             err, alreadyRegistered, registeredMetrics, rollbackIdx, regLog,
             unregLog, snapRegistry, snapRecord, histSeen, histAtLock, histAtTest,
             observed, firstErr, unlocks, sawRollback, recordedCount,
             recordedSet>>

counters == <<started, handled, msgReceived, msgSent>>
rpcHistory == <<begun, ended, failed, exits, sendsOk, recvsOk, retChanged>>
rpcVars == <<counters, cpc, clabel, ops, rpcHistory, initialized>>

vars == <<regVars, rpcVars>>

shared == <<registration, mu, registry>>
locals == <<reg, err, alreadyRegistered, registeredMetrics, rollbackIdx>>
callHistory == <<regLog, unregLog, snapRegistry, snapRecord, histSeen,
                 histAtLock, histAtTest, observed, firstErr, unlocks,
                 sawRollback>>
histVars == <<histEnabled, histExists, enPc>>
globalHistory == <<recordedCount, recordedSet>>

InitReg ==
  /\ registration = {}
  /\ mu = 0
  /\ registry = [r \in Registries |-> {}]
  /\ histEnabled = FALSE
  /\ histExists = FALSE
  /\ enPc = "idle"
  /\ pc = [p \in Callers |-> "idle"]
  /\ reg = [p \in Callers |-> 0]
  /\ err = [p \in Callers |-> Nil]
  /\ alreadyRegistered = [p \in Callers |-> FALSE]
  /\ registeredMetrics = [p \in Callers |-> <<>>]
  /\ rollbackIdx = [p \in Callers |-> 0]
  /\ regLog = [p \in Callers |-> <<>>]
  /\ unregLog = [p \in Callers |-> <<>>]
  /\ snapRegistry = [p \in Callers |-> [r \in Registries |-> {}]]
  /\ snapRecord = [p \in Callers |-> {}]
  /\ histSeen = [p \in Callers |-> "unread"]
  /\ histAtLock = [p \in Callers |-> FALSE]
  /\ histAtTest = [p \in Callers |-> FALSE]
  /\ observed = [p \in Callers |-> "none"]
  /\ firstErr = [p \in Callers |-> Nil]
  /\ unlocks = [p \in Callers |-> 0]
  /\ sawRollback = [p \in Callers |-> FALSE]
  /\ recordedCount = [r \in Registries |-> 0]
  /\ recordedSet = [r \in Registries |-> {}]

InitRpc ==
  /\ started = [m \in MetricSets |-> [l \in Methods |-> Absent]]
  /\ handled = [m \in MetricSets |-> [k \in Methods \X Codes |-> Absent]]
  /\ msgReceived = [m \in MetricSets |-> [l \in Methods |-> Absent]]
  /\ msgSent = [m \in MetricSets |-> [l \in Methods |-> Absent]]
  /\ cpc = [c \in Calls |-> "new"]
  /\ clabel = [c \in Calls |-> <<>>]
  /\ ops = [c \in Calls |-> 0]
  /\ begun = [l \in Methods |-> 0]
  /\ ended = [l \in Methods |-> 0]
  /\ failed = [l \in Methods |-> 0]
  /\ exits = {}
  /\ sendsOk = [l \in Methods |-> 0]
  /\ recvsOk = [l \in Methods |-> 0]
  /\ retChanged = FALSE
  /\ initialized = "no"

Init == InitReg /\ InitRpc

\* ------------------------------------------------ the registerer (external)
\* reg.Register(c): a registerer refuses a collector it already holds and may
\* refuse any other (a descriptor conflict with a foreign collector).
RegisterResults(r, c) ==
  IF c \in registry[r] THEN {AlreadyRegisteredError}
  ELSE {Nil, DescriptorConflict}

\* The registry after Register(c) returned res.
AfterRegister(r, c, res) ==
  IF res = Nil THEN [registry EXCEPT ![r] = @ \cup {c}] ELSE registry

\* Mutant: Unregister leaves the collector in the registry.
AfterUnregister_Noop(r, c) == registry

\* The registry after reg.Unregister(c).
AfterUnregister(r, c) == [registry EXCEPT ![r] = @ \ {c}]

\* ------------------------------------------------ EnableHandlingTimeHistogram
\* Line 94 reads both fields: the histogram is wanted when enabled and present.
HistogramWanted == histEnabled /\ histExists

\* The histogram vector is created unless already enabled (then the call
\* changes nothing), and the flag is set after it.
EnableCreate ==
  /\ enPc = "idle"
  /\ IF histEnabled
       THEN UNCHANGED <<histExists, enPc>>
       ELSE /\ histExists' = TRUE
            /\ enPc' = "created"
  /\ UNCHANGED <<shared, histEnabled, pc, locals, callHistory, globalHistory>>

EnableSet ==
  /\ enPc = "created"
  /\ histEnabled' = TRUE
  /\ enPc' = "idle"
  /\ UNCHANGED <<shared, histExists, pc, locals, callHistory, globalHistory>>

\* ------------------------- RegisterDefaultServerMetricsWithRegisterer(reg)
\* A caller enters the function with argument r; the results start at their
\* zero values.
Call(p, r) ==
  /\ pc[p] \in {"idle", "done"}
  /\ reg' = [reg EXCEPT ![p] = r]
  /\ err' = [err EXCEPT ![p] = Nil]
  /\ alreadyRegistered' = [alreadyRegistered EXCEPT ![p] = FALSE]
  /\ pc' = [pc EXCEPT ![p] = "lock"]
  /\ observed' = [observed EXCEPT ![p] = "none"]
  /\ firstErr' = [firstErr EXCEPT ![p] = Nil]
  /\ unlocks' = [unlocks EXCEPT ![p] = 0]
  /\ UNCHANGED <<shared, histVars, registeredMetrics, rollbackIdx, regLog,
                 unregLog, snapRegistry, snapRecord, histSeen, histAtLock,
                 histAtTest, sawRollback, globalHistory>>

\* Mutant: Lock() never waits.
LockFree_Always == TRUE

\* Line 47: Lock() returns only when no one holds the mutex.
LockFree == mu = 0

\* Mutant: Lock() returns without taking the mutex.
LockedBy_NoOne(p) == 0

\* Line 47: the mutex once Lock() has returned to p.
LockedBy(p) == p

Lock(p) ==
  /\ pc[p] = "lock"
  /\ LockFree
  /\ mu' = LockedBy(p)
  /\ pc' = [pc EXCEPT ![p] = "check"]
  /\ snapRegistry' = [snapRegistry EXCEPT ![p] = registry]
  /\ snapRecord' = [snapRecord EXCEPT ![p] = registration]
  /\ observed' = [observed EXCEPT ![p] =
                    IF reg[p] \in registration THEN "recorded" ELSE "none"]
  /\ histAtLock' = [histAtLock EXCEPT ![p] = HistogramWanted]
  /\ UNCHANGED <<registration, registry, histVars, locals, regLog, unregLog,
                 histSeen, histAtTest, firstErr, unlocks, sawRollback, globalHistory>>

\* The function returns: its frame (argument, slice, loop variable) and the
\* history of the call are dropped; the results stay with the caller.
DropFrame(p) ==
  /\ reg' = [reg EXCEPT ![p] = 0]
  /\ registeredMetrics' = [registeredMetrics EXCEPT ![p] = <<>>]
  /\ rollbackIdx' = [rollbackIdx EXCEPT ![p] = 0]
  /\ regLog' = [regLog EXCEPT ![p] = <<>>]
  /\ unregLog' = [unregLog EXCEPT ![p] = <<>>]
  /\ snapRegistry' = [snapRegistry EXCEPT ![p] = [r \in Registries |-> {}]]
  /\ snapRecord' = [snapRecord EXCEPT ![p] = {}]
  /\ histSeen' = [histSeen EXCEPT ![p] = "unread"]
  /\ histAtLock' = [histAtLock EXCEPT ![p] = FALSE]
  /\ histAtTest' = [histAtTest EXCEPT ![p] = FALSE]
  /\ sawRollback' = [sawRollback EXCEPT ![p] = FALSE]
  /\ UNCHANGED <<observed, firstErr>>

\* Mutant: Unlock() leaves the mutex with the caller.
AfterUnlock_Held(p) == p

\* Lines 50, 65, 71: the mutex once p's Unlock() has returned.
AfterUnlock(p) == 0

\* defaultServerMetricsPromRegistrationMu.Unlock() by p.
Unlock(p) ==
  /\ mu' = AfterUnlock(p)
  /\ unlocks' = [unlocks EXCEPT ![p] = @ + 1]

\* Mutant: a recorded registry is registered again once the histogram is on.
IsRegistered_UnlessHistogram(r) == r \in registration /\ ~HistogramWanted

\* Mutant: the membership test never finds the registry.
IsRegistered_Never(r) == FALSE

\* Line 49: the membership test on the registration record.
IsRegistered(r) == r \in registration

\* Lines 49-57: already registered, or start an attempt with an empty slice.
Check(p) ==
  /\ pc[p] = "check"
  /\ IF IsRegistered(reg[p])
       THEN /\ pc' = [pc EXCEPT ![p] = "unlockAlready"]
            /\ UNCHANGED registeredMetrics
       ELSE /\ pc' = [pc EXCEPT ![p] = "reg1"]
            /\ registeredMetrics' = [registeredMetrics EXCEPT ![p] = <<>>]
  /\ UNCHANGED <<shared, histVars, reg, err, alreadyRegistered, rollbackIdx,
                 callHistory, globalHistory>>

\* Lines 50-54: unlock, alreadyRegistered = true, return.
UnlockAlready(p) ==
  /\ pc[p] = "unlockAlready"
  /\ Unlock(p)
  /\ alreadyRegistered' = [alreadyRegistered EXCEPT ![p] = TRUE]
  /\ pc' = [pc EXCEPT ![p] = "done"]
  /\ DropFrame(p)
  /\ UNCHANGED <<registration, registry, histVars, err, globalHistory>>

\* The statement that registers counter k, and the one after it succeeds.
RegPc == <<"reg1", "reg2", "reg3", "reg4">>

\* Mutant: the statement after the next one (a counter is skipped).
AfterCounterPc_Skip(k) == IF k + 1 < Len(Counters) THEN RegPc[k + 2] ELSE "histTest"

AfterCounterPc(k) == IF k < Len(Counters) THEN RegPc[k + 1] ELSE "histTest"

\* `if err = reg.Register(c); err != nil { return }` followed by the append:
\* on the error return the deferred function runs next.
RegisterCollector(p, c, okPc) ==
  \E res \in RegisterResults(reg[p], c) :
    /\ registry' = AfterRegister(reg[p], c, res)
    /\ err' = [err EXCEPT ![p] = res]
    /\ regLog' = [regLog EXCEPT ![p] = Append(@, <<c, res>>)]
    /\ IF res = Nil
         THEN /\ registeredMetrics' = [registeredMetrics EXCEPT ![p] = Append(@, c)]
              /\ pc' = [pc EXCEPT ![p] = okPc]
              /\ UNCHANGED <<observed, firstErr>>
         ELSE /\ pc' = [pc EXCEPT ![p] = "defer"]
              /\ observed' = [observed EXCEPT ![p] = "failed"]
              /\ firstErr' = [firstErr EXCEPT ![p] = res]
              /\ UNCHANGED registeredMetrics
    /\ UNCHANGED <<registration, mu, histVars, reg, alreadyRegistered,
                   rollbackIdx, unregLog, snapRegistry, snapRecord, histSeen,
                   histAtLock, histAtTest, unlocks, sawRollback, globalHistory>>

\* Lines 74-92: the four counters, in order.
RegisterCounter(p, k) ==
  /\ pc[p] = RegPc[k]
  /\ RegisterCollector(p, Counters[k], AfterCounterPc(k))

\* Mutant: the histogram is never seen as enabled.
HistogramRead_Never(p) == {FALSE}

\* Line 94 reads the two fields without synchronisation. What was written
\* before the caller took the lock is seen; what a concurrent
\* EnableHandlingTimeHistogram wrote since then may or may not be.
HistogramRead(p) ==
  IF ~HistogramWanted THEN {FALSE}
  ELSE IF histAtLock[p] THEN {TRUE}
  ELSE {TRUE, FALSE}

HistTest(p) ==
  /\ pc[p] = "histTest"
  /\ \E seen \in HistogramRead(p) :
       /\ histSeen' = [histSeen EXCEPT ![p] = IF seen THEN "yes" ELSE "no"]
       /\ pc' = [pc EXCEPT ![p] = IF seen THEN "regHist" ELSE "defer"]
  /\ histAtTest' = [histAtTest EXCEPT ![p] = HistogramWanted]
  /\ UNCHANGED <<shared, histVars, locals, regLog, unregLog, snapRegistry,
                 snapRecord, histAtLock, observed, firstErr, unlocks, sawRollback,
                 globalHistory>>

\* Lines 95-98.
RegisterHistogram(p) ==
  /\ pc[p] = "regHist"
  /\ RegisterCollector(p, Histogram, "defer")

\* Mutant: the deferred function does not look at err.
RollbackNeeded_Never(p) == FALSE

\* Line 60: the deferred function rolls back when the named result err is set.
RollbackNeeded(p) == err[p] # Nil

\* Lines 59-60: the deferred function starts on every return of an attempt.
Defer(p) ==
  /\ pc[p] = "defer"
  /\ IF RollbackNeeded(p)
       THEN /\ rollbackIdx' = [rollbackIdx EXCEPT ![p] = 0]
            /\ pc' = [pc EXCEPT ![p] = "rollback"]
       ELSE /\ pc' = [pc EXCEPT ![p] = "record"]
            /\ UNCHANGED rollbackIdx
  /\ observed' = [observed EXCEPT ![p] = IF @ = "none" THEN "allOk" ELSE @]
  /\ UNCHANGED <<shared, histVars, reg, err, alreadyRegistered,
                 registeredMetrics, regLog, unregLog, snapRegistry, snapRecord,
                 histSeen, histAtLock, histAtTest, firstErr, unlocks, sawRollback,
                 globalHistory>>

\* Mutant: the loop stops one short, i < len(registeredMetrics)-1.
RollbackMore_OneShort(p) == rollbackIdx[p] + 1 < Len(registeredMetrics[p])

\* Line 61: the loop condition i < len(registeredMetrics).
RollbackMore(p) == rollbackIdx[p] < Len(registeredMetrics[p])

\* Mutant: the loop unregisters registeredMetrics[0] on every turn.
RollbackTarget_First(p) == registeredMetrics[p][1]

\* Line 62: the collector handed to Unregister (Go indexes from 0).
RollbackTarget(p) == registeredMetrics[p][rollbackIdx[p] + 1]

\* Lines 61-63: one turn of the rollback loop, or its exit.
Rollback(p) ==
  /\ pc[p] = "rollback"
  /\ IF RollbackMore(p)
       THEN /\ registry' = AfterUnregister(reg[p], RollbackTarget(p))
            /\ unregLog' = [unregLog EXCEPT ![p] = Append(@, RollbackTarget(p))]
            /\ rollbackIdx' = [rollbackIdx EXCEPT ![p] = @ + 1]
            /\ sawRollback' =
                 [q \in Callers |->
                    IF /\ q # p /\ pc[q] = "lock" /\ reg[q] = reg[p]
                       /\ RollbackTarget(p) = Counters[1]
                      THEN TRUE ELSE sawRollback[q]]
            /\ UNCHANGED pc
       ELSE /\ pc' = [pc EXCEPT ![p] = "unlockErr"]
            /\ UNCHANGED <<registry, unregLog, rollbackIdx, sawRollback>>
  /\ UNCHANGED <<registration, mu, histVars, reg, err, alreadyRegistered,
                 registeredMetrics, regLog, snapRegistry, snapRecord, histSeen,
                 histAtLock, histAtTest, observed, firstErr, unlocks,
                 globalHistory>>

\* Lines 65-67: unlock and return the error.
UnlockErr(p) ==
  /\ pc[p] = "unlockErr"
  /\ Unlock(p)
  /\ pc' = [pc EXCEPT ![p] = "done"]
  /\ DropFrame(p)
  /\ UNCHANGED <<registration, registry, histVars, err, alreadyRegistered,
                 globalHistory>>

\* Mutant: one key for every registerer.
RecordKey_Shared(p) == 1

\* Line 70: the key written into the registration record.
RecordKey(p) == reg[p]

\* The collectors whose Register returned nil to p in this call.
RegisteredBy(p) ==
  {regLog[p][i][1] : i \in {j \in 1..Len(regLog[p]) : regLog[p][j][2] = Nil}}

\* Mutant: the record is replaced by the one new entry.
AfterRecord_Only(p) == {RecordKey(p)}

\* Line 70: the map assignment adds the key and keeps the other entries.
AfterRecord(p) == registration \cup {RecordKey(p)}

Record(p) ==
  /\ pc[p] = "record"
  /\ registration' = AfterRecord(p)
  /\ recordedCount' = [recordedCount EXCEPT ![reg[p]] = Saturate(@ + 1)]
  /\ recordedSet' = [recordedSet EXCEPT ![reg[p]] = RegisteredBy(p)]
  /\ pc' = [pc EXCEPT ![p] = "unlockOk"]
  /\ UNCHANGED <<mu, registry, histVars, locals, callHistory>>

\* Line 71 and the return of line 101.
UnlockOk(p) ==
  /\ pc[p] = "unlockOk"
  /\ Unlock(p)
  /\ pc' = [pc EXCEPT ![p] = "done"]
  /\ DropFrame(p)
  /\ UNCHANGED <<registration, registry, histVars, err, alreadyRegistered,
                 globalHistory>>

\* A step of caller p inside the function.
CallerStep(p) ==
  \/ Lock(p)
  \/ Check(p)
  \/ UnlockAlready(p)
  \/ \E k \in 1..Len(Counters) : RegisterCounter(p, k)
  \/ HistTest(p)
  \/ RegisterHistogram(p)
  \/ Defer(p)
  \/ Rollback(p)
  \/ UnlockErr(p)
  \/ Record(p)
  \/ UnlockOk(p)

RegNext ==
  \/ EnableCreate
  \/ EnableSet
  \/ \E p \in Callers : \E r \in Registries : Call(p, r)
  \/ \E p \in Callers : CallerStep(p)

\* Registration of the default metrics, with concurrent callers.
Next == RegNext /\ UNCHANGED rpcVars

Spec == Init /\ [][Next]_vars

\* Scheduling: a caller inside the function keeps running (every Register
\* and Unregister call returns), and a caller waiting in Lock() gets the
\* mutex if it is released again and again (sync.Mutex hands a starving
\* waiter the mutex). Nothing obliges anyone to call the function or
\* EnableHandlingTimeHistogram.
Fairness ==
  \A p \in Callers :
    /\ WF_vars(CallerStep(p) /\ UNCHANGED rpcVars)
    /\ SF_vars(Lock(p) /\ UNCHANGED rpcVars)

SpecFair == Spec /\ Fairness

\* ------------------------------------------------- a Register that panics
\* The collector whose Register call p is about to make.
NextCollector(p) ==
  IF pc[p] = "regHist" THEN Histogram
  ELSE Counters[CHOOSE k \in 1..Len(Counters) : RegPc[k] = pc[p]]

\* The registry when reg.Register(c) has panicked: the panic may have come
\* before or after the registerer took the collector in.
AfterPanic(r, c) ==
  IF c \in registry[r] THEN {registry}
  ELSE {registry, AfterRegister(r, c, Nil)}

\* reg.Register(...) panics at one of lines 74-95: the assignment to err and
\* the append are not reached, so err keeps the nil of the calls before and
\* registeredMetrics the collectors registered so far; the deferred function
\* (lines 59-72) runs next, then the panic goes on to the caller, which is
\* taken to recover from it.
RegisterPanics(p) ==
  /\ pc[p] \in {RegPc[k] : k \in 1..Len(Counters)} \cup {"regHist"}
  /\ registry' \in AfterPanic(reg[p], NextCollector(p))
  /\ regLog' = [regLog EXCEPT ![p] = Append(@, <<NextCollector(p), "panic">>)]
  /\ observed' = [observed EXCEPT ![p] = "panicked"]
  /\ pc' = [pc EXCEPT ![p] = "defer"]
  /\ UNCHANGED <<registration, mu, histVars, locals, unregLog, snapRegistry,
                 snapRecord, histSeen, histAtLock, histAtTest, firstErr,
                 unlocks, sawRollback, globalHistory>>

\* Registration with registerers whose Register may panic.
NextPanic ==
  /\ \/ RegNext
     \/ \E p \in Callers : RegisterPanics(p)
  /\ UNCHANGED rpcVars

SpecPanic == Init /\ [][NextPanic]_vars

\* ---------------------------------------------- counters of a ServerMetrics
\* counter.WithLabelValues(k).Add(n): the series is created at 0 if absent.
AddTo(vec, m, k, n) ==
  [vec EXCEPT ![m][k] = (IF @ = Absent THEN 0 ELSE @) + n]

\* InitializeMetrics(server): every declared method's started series and its
\* handled series for every code are touched with Add(0).
InitializeMetrics(m) ==
  /\ started' = [started EXCEPT ![m] =
                   [l \in Methods |-> IF started[m][l] = Absent THEN 0
                                      ELSE started[m][l]]]
  /\ handled' = [handled EXCEPT ![m] =
                   [k \in Methods \X Codes |-> IF handled[m][k] = Absent THEN 0
                                               ELSE handled[m][k]]]
  /\ UNCHANGED <<msgReceived, msgSent>>

\* Mutant: Register initialises a ServerMetrics of its own.
RegisterMetrics_Other == "otherServerMetrics"

\* Line 36: Register acts on DefaultServerMetrics.
RegisterMetrics == DefaultServerMetrics

\* Lines 35-37: Register(server).
Register ==
  /\ InitializeMetrics(RegisterMetrics)
  /\ initialized' = IF \E c \in Calls : cpc[c] # "new" THEN "busy" ELSE "quiet"
  /\ UNCHANGED <<cpc, clabel, ops, rpcHistory>>

\* Mutant: the interceptor is taken from a ServerMetrics of its own.
UnaryInterceptorMetrics_Other == "otherServerMetrics"

\* Line 22: UnaryServerInterceptor = DefaultServerMetrics.UnaryServerInterceptor().
UnaryInterceptorMetrics == DefaultServerMetrics

\* Mutant: the interceptor is taken from a ServerMetrics of its own.
StreamInterceptorMetrics_Other == "otherServerMetrics"

\* Line 25: StreamServerInterceptor = DefaultServerMetrics.StreamServerInterceptor().
StreamInterceptorMetrics == DefaultServerMetrics

\* Mutant: every interceptor reports to a ServerMetrics of its own.
InterceptorMetrics_Other(l) == "otherServerMetrics"

\* The ServerMetrics the interceptor of a method of label l reports to.
InterceptorMetrics(l) ==
  IF IsStream(l) THEN StreamInterceptorMetrics ELSE UnaryInterceptorMetrics

\* ------------------------------------------------------- the interceptors
\* observeStart: the interceptor counts the RPC as started before the handler
\* runs.
RpcBegin(c, l) ==
  /\ cpc[c] = "new"
  /\ started' = AddTo(started, InterceptorMetrics(l), l, 1)
  /\ cpc' = [cpc EXCEPT ![c] = "running"]
  /\ clabel' = [clabel EXCEPT ![c] = l]
  /\ begun' = [begun EXCEPT ![l] = @ + 1]
  /\ UNCHANGED <<handled, msgReceived, msgSent, ops, ended, failed, exits,
                 sendsOk, recvsOk, retChanged, initialized>>

\* What the underlying stream's SendMsg and RecvMsg may return.
SendResults == {Nil, "sendError"}
RecvResults == {Nil, "EOF", "recvError"}

\* What the wrapped operation returns for the underlying result res.
WrappedReturn(res) == res

\* wrapSend: call through, count the message only when the send succeeded,
\* return the underlying result.
StreamSend(c) ==
  /\ cpc[c] = "running"
  /\ IsStream(clabel[c])
  /\ ops[c] < MaxMsgs
  /\ \E res \in SendResults :
       /\ msgSent' = IF res = Nil
                       THEN AddTo(msgSent, InterceptorMetrics(clabel[c]), clabel[c], 1)
                       ELSE msgSent
       /\ sendsOk' = [sendsOk EXCEPT ![clabel[c]] = IF res = Nil THEN @ + 1 ELSE @]
       /\ retChanged' = (retChanged \/ WrappedReturn(res) # res)
  /\ ops' = [ops EXCEPT ![c] = @ + 1]
  /\ UNCHANGED <<started, handled, msgReceived, cpc, clabel, begun, ended,
                 failed, exits, recvsOk, initialized>>

\* wrapReceive: call through, count the message only when one was received
\* (not at end of stream, not on an error), return the underlying result.
StreamRecv(c) ==
  /\ cpc[c] = "running"
  /\ IsStream(clabel[c])
  /\ ops[c] < MaxMsgs
  /\ \E res \in RecvResults :
       /\ msgReceived' = IF res = Nil
                           THEN AddTo(msgReceived, InterceptorMetrics(clabel[c]),
                                      clabel[c], 1)
                           ELSE msgReceived
       /\ recvsOk' = [recvsOk EXCEPT ![clabel[c]] = IF res = Nil THEN @ + 1 ELSE @]
       /\ retChanged' = (retChanged \/ WrappedReturn(res) # res)
  /\ ops' = [ops EXCEPT ![c] = @ + 1]
  /\ UNCHANGED <<started, handled, msgSent, cpc, clabel, begun, ended, failed,
                 exits, sendsOk, initialized>>

\* The ways a handler invocation ends, and the status codes each is
\* observed with.
Outcomes == {"ok", "error", "panic", "cancelled"}

CodesOf(outcome) ==
  CASE outcome = "ok" -> {OK}
    [] outcome = "error" -> Codes \ {OK}
    [] outcome = "panic" -> {"Unknown"}
    [] outcome = "cancelled" -> {"Canceled"}

\* observeHandled: run on every exit of the handler, once.
RpcEnd(c) ==
  /\ cpc[c] = "running"
  /\ \E outcome \in Outcomes : \E code \in CodesOf(outcome) :
       /\ handled' = AddTo(handled, InterceptorMetrics(clabel[c]),
                           <<clabel[c], code>>, 1)
       /\ failed' = [failed EXCEPT ![clabel[c]] = IF outcome = "ok" THEN @ ELSE @ + 1]
       /\ exits' = exits \cup {outcome}
  /\ ended' = [ended EXCEPT ![clabel[c]] = @ + 1]
  /\ cpc' = [cpc EXCEPT ![c] = "done"]
  /\ clabel' = [clabel EXCEPT ![c] = <<>>]
  /\ ops' = [ops EXCEPT ![c] = 0]
  /\ UNCHANGED <<started, msgReceived, msgSent, begun, sendsOk, recvsOk,
                 retChanged, initialized>>

RpcNext ==
  \/ Register
  \/ \E c \in Calls : \E l \in Methods : RpcBegin(c, l)
  \/ \E c \in Calls : StreamSend(c)
  \/ \E c \in Calls : StreamRecv(c)
  \/ \E c \in Calls : RpcEnd(c)

\* RPCs through the default interceptors, with Register(server) at any time.
NextRPC == RpcNext /\ UNCHANGED regVars

SpecRPC == Init /\ [][NextRPC]_vars

\* ----------------------------------------------------------------- claims
Elems(seq) == {seq[i] : i \in 1..Len(seq)}
FourCounters == Elems(Counters)

\* The collectors whose Register returned nil to p in this call, in call order.
OkSeq(p) ==
  LET F[i \in 0..Len(regLog[p])] ==
        IF i = 0 THEN <<>>
        ELSE IF regLog[p][i][2] = Nil THEN Append(F[i - 1], regLog[p][i][1])
        ELSE F[i - 1]
  IN F[Len(regLog[p])]

\* The collectors whose Register returned an error to p in this call.
FailedCollectors(p) ==
  {regLog[p][i][1] : i \in {j \in 1..Len(regLog[p]) : regLog[p][j][2] # Nil}}

\* p holds the lock and is past the membership test.
PastCheck(p) == mu = p /\ pc[p] \notin {"idle", "lock", "check", "done"}

\* C1: a call on a registry that is already in the registration record
\* returns alreadyRegistered = true with err = nil, calls neither Register nor
\* Unregister, and leaves the record (and the registry) as they were.
C1_IdempotentReRegistration ==
  \A p \in Callers :
    /\ (PastCheck(p) /\ reg[p] \in snapRecord[p]) =>
         /\ pc[p] = "unlockAlready"
         /\ regLog[p] = <<>>
         /\ unregLog[p] = <<>>
         /\ registration = snapRecord[p]
         /\ registry = snapRegistry[p]
    /\ (pc[p] = "done" /\ observed[p] = "recorded") =>
         /\ alreadyRegistered[p]
         /\ err[p] = Nil

\* A caller has returned from a call on a registry it found recorded.
C1_Witness ==
  \E p \in Callers :
    pc[p] = "done" /\ observed[p] = "recorded" /\ alreadyRegistered[p]

\* C2: when a Register call fails at any position, the rollback calls
\* Unregister on exactly the collectors whose Register succeeded in this
\* attempt (never the failing one), and when the function is about to return
\* the registry holds none of them and equals what it was before the call.
C2_AllOrNothingRollback ==
  \A p \in Callers :
    /\ (PastCheck(p) /\ observed[p] # "failed") => unregLog[p] = <<>>
    /\ (PastCheck(p) /\ observed[p] = "failed") =>
         /\ Len(unregLog[p]) <= Len(OkSeq(p))
         /\ unregLog[p] = SubSeq(OkSeq(p), 1, Len(unregLog[p]))
         /\ Elems(unregLog[p]) \cap FailedCollectors(p) = {}
    /\ pc[p] = "unlockErr" =>
         /\ observed[p] = "failed"
         /\ unregLog[p] = OkSeq(p)
         /\ registry[reg[p]] \cap Elems(OkSeq(p)) = {}
         /\ registry[reg[p]] = snapRegistry[p][reg[p]]

\* The histogram's Register failed after the four counters were registered,
\* and all four have been unregistered.
C2_Witness ==
  \E p \in Callers :
    /\ pc[p] = "unlockErr"
    /\ Len(regLog[p]) = Len(Counters) + 1
    /\ Len(unregLog[p]) = Len(Counters)

\* C3: when a Register call returns an error, the function returns that
\* error with alreadyRegistered = false, and the registration record stays
\* what it was before the call: the registry is not recorded.
C3_ErrorOutcome ==
  \A p \in Callers :
    /\ (PastCheck(p) /\ observed[p] = "failed") =>
         /\ registration = snapRecord[p]
         /\ reg[p] \notin registration
         /\ err[p] = firstErr[p]
    /\ (pc[p] = "done" /\ observed[p] = "failed") =>
         /\ err[p] = firstErr[p]
         /\ err[p] # Nil
         /\ ~alreadyRegistered[p]

\* A caller has returned the error of a failed Register.
C3_Witness ==
  \E p \in Callers :
    pc[p] = "done" /\ observed[p] = "failed" /\ err[p] = DescriptorConflict

\* What a successful attempt of p leaves in its registry.
Registered(p) ==
  FourCounters \cup (IF histSeen[p] = "yes" THEN {Histogram} ELSE {})

\* Some caller is inside the critical section with argument r.
Attempting(r) == \E p \in Callers : mu = p /\ reg[p] = r

\* C4: failed attempts leave nothing behind that a later call could trip
\* over: a registry that is not recorded holds no collector outside an attempt,
\* no Register ever meets a collector left in the registry, alreadyRegistered
\* is only reported for a registry some attempt did register, and a call whose
\* Register calls all succeed registers every instrument, records the registry
\* and returns alreadyRegistered = false, err = nil.
C4_RetryAfterFailure ==
  /\ \A r \in Registries :
       (r \notin registration /\ ~Attempting(r)) => registry[r] = {}
  /\ \A p \in Callers :
       /\ \A i \in 1..Len(regLog[p]) : regLog[p][i][2] # AlreadyRegisteredError
       /\ (PastCheck(p) /\ observed[p] = "recorded") => recordedCount[reg[p]] >= 1
       /\ (pc[p] = "unlockOk" /\ observed[p] = "allOk") =>
            /\ reg[p] \in registration
            /\ registry[reg[p]] = Registered(p)
       /\ (pc[p] = "done" /\ observed[p] = "allOk") =>
            /\ ~alreadyRegistered[p]
            /\ err[p] = Nil

\* An attempt succeeded on a registry after another attempt on that registry
\* had failed and been rolled back.
C4_Witness ==
  \E p \in Callers :
    /\ pc[p] = "unlockOk"
    /\ observed[p] = "allOk"
    /\ sawRollback[p]

\* p's Register of collector c returned nil in this call.
RegisteredOk(p, c) == \E i \in 1..Len(regLog[p]) : regLog[p][i] = <<c, Nil>>

\* C5 as stated: each instrument is successfully registered into a registry
\* by at most one caller. Here for serverStartedCounter: a caller that waited
\* while another caller's successful registration of it into the same registry
\* was rolled back does not register it successfully itself.
C5_Original_OneRegistrantPerInstrument ==
  \A q \in Callers : sawRollback[q] => ~RegisteredOk(q, Counters[1])

\* C5 (amended): under every interleaving of concurrent callers no Register
\* is called for a collector the registry holds, at most one caller at a time
\* has collectors of its attempt in a registry, at most one attempt per
\* registry is recorded, and a call none of whose Register calls fails
\* returns alreadyRegistered = false, err = nil if it made the attempt that
\* was recorded, and alreadyRegistered = true otherwise.
C5_NoDuplicateRegistration ==
  /\ \A p \in Callers :
       \A i \in 1..Len(regLog[p]) : regLog[p][i][2] # AlreadyRegisteredError
  /\ \A p, q \in Callers :
       (p # q /\ reg[p] # 0 /\ reg[p] = reg[q]) =>
         (registeredMetrics[p] = <<>> \/ registeredMetrics[q] = <<>>)
  /\ \A r \in Registries :
       /\ recordedCount[r] <= 1
       /\ (recordedCount[r] = 1) = (r \in registration)
  /\ \A p \in Callers :
       /\ (PastCheck(p) /\ reg[p] \in snapRecord[p]) => observed[p] = "recorded"
       /\ (PastCheck(p) /\ reg[p] \notin snapRecord[p]) => observed[p] # "recorded"
       /\ (pc[p] = "done" /\ observed[p] = "allOk") =>
            (~alreadyRegistered[p] /\ err[p] = Nil)
       /\ (pc[p] = "done" /\ observed[p] = "recorded") =>
            (alreadyRegistered[p] /\ err[p] = Nil)

\* One caller has registered and recorded a registry while another caller
\* with the same registry waits for the lock.
C5_Witness ==
  \E p, q \in Callers :
    /\ p # q
    /\ pc[p] = "unlockOk"
    /\ pc[q] = "lock"
    /\ reg[q] = reg[p]

\* C6 as stated: after a call whose Register calls all succeeded the registry
\* holds the four counters and the histogram when the histogram was enabled
\* before, and exactly the four counters when it was not. (Not enabled when
\* the caller took the lock implies not enabled when it called.)
C6_Original_HistogramByCallTime ==
  \A p \in Callers :
    (pc[p] = "unlockOk" /\ observed[p] = "allOk") =>
      /\ histAtLock[p] => registry[reg[p]] = Instruments
      /\ ~histAtLock[p] => registry[reg[p]] = FourCounters

\* C6 (amended): after a call whose Register calls all succeeded the registry
\* holds the four counters and the histogram when the histogram was enabled
\* before the call, exactly the four counters when it was still not enabled
\* at the test of line 94, and one of the two in between.
C6_HistogramRegistration ==
  \A p \in Callers :
    (pc[p] = "unlockOk" /\ observed[p] = "allOk") =>
      /\ histAtLock[p] => registry[reg[p]] = Instruments
      /\ ~histAtTest[p] => registry[reg[p]] = FourCounters
      /\ registry[reg[p]] \in {FourCounters, Instruments}

\* The histogram was enabled before the call and is registered with the
\* four counters.
C6_Witness ==
  \E p \in Callers :
    /\ pc[p] = "unlockOk"
    /\ observed[p] = "allOk"
    /\ histAtLock[p]
    /\ registry[reg[p]] = Instruments

\* C7: while a caller is in the function with registry A, the contents of
\* every other registry B and B's membership in the record stay what they
\* were; a registry is in the record exactly when an attempt on it (and not on
\* another registry) succeeded, which happens at most once.
C7_IndependentRegistries ==
  /\ \A p \in Callers : \A B \in Registries :
       (mu = p /\ pc[p] # "idle" /\ B # reg[p]) =>
         /\ registry[B] = snapRegistry[p][B]
         /\ (B \in registration) = (B \in snapRecord[p])
  /\ \A B \in Registries :
       /\ (B \in registration) = (recordedCount[B] = 1)
       /\ recordedCount[B] <= 1

\* A registry has been registered while another one already was.
C7_Witness ==
  \E p \in Callers : \E A \in Registries :
    /\ pc[p] = "unlockOk"
    /\ A # reg[p]
    /\ A \in registration
    /\ registry[A] # {}

\* The value a counter series shows (a missing series shows nothing: 0).
Val(v) == IF v = Absent THEN 0 ELSE v

\* The handled observations of method l in the default metrics, summed over
\* the status codes in S.
RECURSIVE HandledSum(_, _)
HandledSum(l, S) ==
  IF S = {} THEN 0
  ELSE LET code == CHOOSE x \in S : TRUE
       IN Val(handled[DefaultServerMetrics][<<l, code>>])
            + HandledSum(l, S \ {code})

HandledTotal(l) == HandledSum(l, Codes)

HandledFailures(l) == HandledSum(l, Codes \ {OK})

InFlight(l) == Cardinality({c \in Calls : cpc[c] = "running" /\ clabel[c] = l})

AllDone == \A c \in Calls : cpc[c] = "done"

InProgress(r) == \E p \in Callers : mu = p /\ reg[p] = r

Region == {"check", "unlockAlready", "reg1", "reg2", "reg3", "reg4", "histTest",
           "regHist", "defer", "rollback", "unlockErr", "record", "unlockOk"}

InRegion(p) == pc[p] \in Region

\* C12: at most one caller at a time is between the membership test and the
\* write of the record or the end of the rollback, whatever registries the
\* callers use, and that caller holds the mutex at every position in between
\* (the lock is not released from the test to the unlock of its return path).
C12_MutualExclusion ==
  /\ \A p \in Callers : InRegion(p) => mu = p
  /\ \A p, q \in Callers : (InRegion(p) /\ InRegion(q)) => p = q
  /\ mu # 0 => InRegion(mu)

\* One caller is rolling back a failed attempt while another caller, with a
\* different registry, waits for the lock.
C12_Witness ==
  \E p, q \in Callers :
    /\ pc[p] = "rollback"
    /\ rollbackIdx[p] >= 1
    /\ pc[q] = "lock"
    /\ reg[q] # reg[p]

\* The order of the Register calls of a complete attempt.
RegisterOrder == Counters \o <<Histogram>>

\* C13: in every attempt the Register calls are issued one at a time in the
\* order started, handled, stream-messages-received, stream-messages-sent,
\* then the histogram if line 94 saw it enabled; a collector's Register is
\* called only after Register succeeded for every earlier collector, and none
\* is called after the first failure.
C13_FixedRegistrationOrder ==
  \A p \in Callers :
    /\ Len(regLog[p]) <= Len(RegisterOrder)
    /\ \A i \in 1..Len(regLog[p]) :
         /\ regLog[p][i][1] = RegisterOrder[i]
         /\ i < Len(regLog[p]) => regLog[p][i][2] = Nil
    /\ \A k \in 1..Len(Counters) : pc[p] = RegPc[k] => Len(regLog[p]) = k - 1
    /\ pc[p] \in {"histTest", "regHist"} => Len(regLog[p]) = Len(Counters)
    /\ Len(regLog[p]) > Len(Counters) => histSeen[p] = "yes"
    /\ (regLog[p] # <<>> /\ regLog[p][Len(regLog[p])][2] # Nil) =>
         pc[p] \in {"defer", "rollback", "unlockErr"}

\* An attempt has failed at its third Register call and has finished its
\* rollback: three calls were made in all.
C13_Witness ==
  \E p \in Callers :
    /\ pc[p] = "unlockErr"
    /\ Len(regLog[p]) = 3
    /\ regLog[p][3] = <<Counters[3], DescriptorConflict>>

\* p is inside the function: called and not yet returned.
InCall(p) == pc[p] \notin {"idle", "done"}

\* The ways the function has returned to p: already registered, success,
\* failure with rollback.
Returned(p) == pc[p] = "done" /\ observed[p] \in {"recorded", "allOk", "failed"}

\* The mutex is not held by a caller that is not past Lock(), and a call that
\* has returned made one Unlock() call, none before its return.
LockReleased ==
  \A p \in Callers :
    /\ pc[p] \in {"idle", "lock", "done"} => mu # p
    /\ pc[p] = "done" => (Returned(p) /\ unlocks[p] = 1)
    /\ InCall(p) => unlocks[p] = 0

\* C14: on each return path (already registered, success, failure with
\* rollback) the mutex is released exactly once and the returned caller does
\* not hold it; with Register and Unregister calls that return and fair
\* scheduling, every call of every caller returns.
C14_LockReleaseAndTermination ==
  /\ []LockReleased
  /\ \A p \in Callers : InCall(p) ~> (pc[p] = "done")

\* A caller waits in Lock() while another caller, which has finished a
\* rollback and has not yet unlocked, holds the mutex.
C14_Witness ==
  \E p, q \in Callers :
    /\ pc[p] = "unlockErr"
    /\ mu = p
    /\ unlocks[p] = 0
    /\ pc[q] = "lock"

\* p is at the end of an attempt in which every Register call returned nil.
AttemptSucceeded(p) ==
  /\ pc[p] = "record"
  /\ Len(regLog[p]) >= Len(Counters)
  /\ \A i \in 1..Len(regLog[p]) : regLog[p][i][2] = Nil

\* p is in the deferred function of an attempt in which a Register call
\* returned an error.
AttemptFailed(p) ==
  pc[p] \in {"defer", "rollback", "unlockErr"} /\ observed[p] = "failed"

\* A step keeps every entry of the record; it adds one only as the last act
\* of an attempt whose Register calls all succeeded, and that entry is the
\* attempt's registry; during the rollback of a failed attempt it changes
\* nothing in the record.
RecordStep ==
  /\ registration \subseteq registration'
  /\ registration' # registration =>
       \E p \in Callers :
         /\ AttemptSucceeded(p)
         /\ pc'[p] = "unlockOk"
         /\ registration' = registration \cup {reg[p]}
  /\ (\E p \in Callers : AttemptFailed(p)) => registration' = registration

MessagesCounted(l) ==
  Val(msgSent[DefaultServerMetrics][l]) + Val(msgReceived[DefaultServerMetrics][l])

\* The handled observations of method l in a handled vector h of the default
\* metrics (the vector before or after a step), summed over the codes in S.
RECURSIVE HandledIn(_, _, _)
HandledIn(h, l, S) ==
  IF S = {} THEN 0
  ELSE LET code == CHOOSE x \in S : TRUE
       IN Val(h[DefaultServerMetrics][<<l, code>>]) + HandledIn(h, l, S \ {code})

MessagesIn(sent, received, l) ==
  Val(sent[DefaultServerMetrics][l]) + Val(received[DefaultServerMetrics][l])

\* What a step does to the default metrics, RPC by RPC: the started
\* observation is the step by which an RPC enters its handler, a message
\* observation is a step of an RPC that is in its handler, and the handled
\* observation is the step by which it leaves the handler for good.
ObservationStep ==
  /\ \A c \in Calls :
       /\ (cpc[c] = "new" /\ cpc'[c] # "new") =>
            /\ cpc'[c] = "running"
            /\ Val(started'[DefaultServerMetrics][clabel'[c]])
                 = Val(started[DefaultServerMetrics][clabel'[c]]) + 1
            /\ \A l \in Methods :
                 /\ MessagesIn(msgSent', msgReceived', l) = MessagesCounted(l)
                 /\ HandledIn(handled', l, Codes) = HandledTotal(l)
       /\ (cpc[c] = "running" /\ cpc'[c] # "running") =>
            /\ cpc'[c] = "done"
            /\ HandledIn(handled', clabel[c], Codes) = HandledTotal(clabel[c]) + 1
       /\ cpc[c] = "done" => cpc'[c] = "done"
  /\ \A l \in Methods :
       /\ Val(started'[DefaultServerMetrics][l])
            # Val(started[DefaultServerMetrics][l]) =>
            \E c \in Calls : cpc[c] = "new" /\ cpc'[c] = "running" /\ clabel'[c] = l
       /\ MessagesIn(msgSent', msgReceived', l) # MessagesCounted(l) =>
            /\ MessagesIn(msgSent', msgReceived', l) = MessagesCounted(l) + 1
            /\ \E c \in Calls :
                 /\ cpc[c] = "running" /\ cpc'[c] = "running"
                 /\ clabel[c] = l
                 /\ ops'[c] = ops[c] + 1
       /\ HandledIn(handled', l, Codes) # HandledTotal(l) =>
            \E c \in Calls : cpc[c] = "running" /\ cpc'[c] = "done" /\ clabel[c] = l

C17_NoLateHistogram ==
  /\ \A r \in registration :
       /\ registry[r] = recordedSet[r]
       /\ Histogram \notin recordedSet[r] => Histogram \notin registry[r]
  /\ \A p \in Callers :
       /\ (PastCheck(p) /\ reg[p] \in snapRecord[p]) =>
            /\ pc[p] = "unlockAlready"
            /\ regLog[p] = <<>>
       /\ (pc[p] = "done" /\ observed[p] = "recorded") =>
            (alreadyRegistered[p] /\ err[p] = Nil)

\* The histogram was enabled before a call on a registry recorded without it:
\* the call is on its already-registered path and the registry still holds
\* the four counters only.
C17_Witness ==
  \E p \in Callers :
    /\ pc[p] = "unlockAlready"
    /\ histAtLock[p]
    /\ HistogramWanted
    /\ recordedSet[reg[p]] = FourCounters
    /\ registry[reg[p]] = FourCounters

\* C18 as stated: a registry is in the record only by an attempt in which
\* every Register call returned nil; an attempt in which a Register call
\* panicked does not put its registry into the record, and no recorded
\* registry holds a partial set of the instruments.
C18_NoRecordAfterPanic ==
  /\ \A p \in Callers :
       (InRegion(p) /\ observed[p] = "panicked") => reg[p] \notin registration
  /\ \A r \in registration :
       /\ FourCounters \subseteq recordedSet[r]
       /\ registry[r] \in {FourCounters, Instruments}

====
